---- MODULE Spec2Model ----
(***************************************************************************)
(* The Last.fm / Spotify gateways of lastfm_spotify_tools.py: the          *)
(* credential checks, the Spotify client-credentials token cache, the two  *)
(* HTTP helpers and the composed tool get_artist_details_by_name, run by   *)
(* tool invocations that the agent may execute in parallel.                *)
(*                                                                         *)
(* Optional[...] values are sequences of length at most one: <<>> is None. *)
(* JSON objects are records; "key in data" is key \in DOMAIN data.         *)
(* An exception is the record of the pieces its f-string message is built  *)
(* from: the literal prefix and every interpolated value.                  *)
(***************************************************************************)
EXTENDS Integers, Sequences, FiniteSets, TLC

VARIABLES
    LASTFM_API_KEY,         \* Optional[str], read once at import
    SPOTIFY_CLIENT_ID,      \* Optional[str], read once at import
    SPOTIFY_CLIENT_SECRET,  \* Optional[str], read once at import
    _spotify_token_cache,   \* Optional[{token, expires_at}]
    now,                    \* the reading datetime.now() gives
    acquired,               \* history: the clock reading and token response behind the cache
    issued,                 \* number of tokens the identity endpoint has issued
    pc,                     \* per invocation: the line it is about to run
    tool,                   \* per invocation: the tool function called and its argument
    endpoint,               \* per invocation: argument of the running _spotify_get
    params,                 \* per invocation: argument of the running gateway call
    token,                  \* per invocation: local `token` of _spotify_get
    response,               \* per invocation: local `response` of _get_spotify_token
    requests,               \* per invocation: the HTTP requests it has issued, in order
    search_results,         \* per invocation: local of get_artist_details_by_name
    hist,                   \* per invocation: history of the responses it received
    result                  \* per invocation: Optional outcome (return value or exception)

vars == << LASTFM_API_KEY, SPOTIFY_CLIENT_ID, SPOTIFY_CLIENT_SECRET,
           _spotify_token_cache, now, acquired, issued,
           pc, tool, endpoint, params, token, response, requests,
           search_results, hist, result >>

creds == << LASTFM_API_KEY, SPOTIFY_CLIENT_ID, SPOTIFY_CLIENT_SECRET >>

-----------------------------------------------------------------------------
(* Bounds of the model *)

MaxTokens == 2

\* The tool invocations the agent runs in parallel.
Threads == {1, 2}

\* The clock readings the model distinguishes (seconds); the clock only moves forward.
Instants == {0, 60, 3540}

\* Values an environment variable can have: unset, empty, set.
CredValues == { <<>>, <<"">>, <<"secret">> }

\* expires_in values a token response can declare (besides omitting the field).
DeclaredLifetimes == {0, 120}

ArtistNames == {"Metallica"}

-----------------------------------------------------------------------------
(* Program constants *)

HTTP_OK == 200
SAFETY_MARGIN == 60
DEFAULT_EXPIRES_IN == 3600

LASTFM_BASE_URL == "https://ws.audioscrobbler.com/2.0"
SPOTIFY_AUTH_URL == "https://accounts.spotify.com/api/token"
SPOTIFY_API_URL == "https://api.spotify.com/v1"

-----------------------------------------------------------------------------
(* Python values *)

None == <<>>
Some(v) == <<v>>

\* Truth value of an Optional[str]: None and "" are falsy.
Truthy(s) == s # None /\ s[1] # ""

\* Outcomes of a call.
Return(v) == [kind |-> "return", value |-> v]
Raise(e) == [kind |-> "raise", exc |-> e]

\* dict.get(key, default)
Get(data, key, default) == IF key \in DOMAIN data THEN data[key] ELSE default

\* {**a, **b}: b's keys win.
Merge(a, b) == [k \in DOMAIN a \cup DOMAIN b |-> IF k \in DOMAIN b THEN b[k] ELSE a[k]]

-----------------------------------------------------------------------------
(* Responses the providers can give *)

Response(status, text, json) == [status |-> status, text |-> text, json |-> json]

LastfmResponses ==
    { Response(200, "{user}", [user |-> "alice"]),
      Response(200, "{error 6}", [error |-> 6, message |-> "User not found"]),
      Response(200, "{error 10}", [error |-> 10]),
      Response(403, "{error 10}", [error |-> 10]) }

\* Token responses: a 200 carries a fresh access_token, with or without expires_in.
TokenBodies(n) ==
    { [access_token |-> n] } \cup
    { [access_token |-> n, expires_in |-> l] : l \in DeclaredLifetimes }

TokenResponses(n) ==
    { Response(200, "{token}", d) : d \in TokenBodies(n) } \cup
    { Response(400, "invalid_client", [error |-> "invalid_client"]) }

SearchBodies ==
    { [artists |-> [items |-> <<>>]],
      [tracks |-> [items |-> <<>>]],
      [artists |-> [items |-> << [id |-> "2ye2Wgw4gimLv2eAKyk1NB"], [id |-> "id2"] >>]] }

\* An endpoint is the sequence of the pieces its path is formatted from.
SpotifyBodies(ep) == IF ep = <<"/search">> THEN SearchBodies ELSE {[id |-> ep[2], popularity |-> 80]}

SpotifyResponses(ep) ==
    { Response(200, "{json}", d) : d \in SpotifyBodies(ep) } \cup
    { Response(401, "expired", [error |-> "expired"]),
      Response(404, "not found", [error |-> "not found"]) }

-----------------------------------------------------------------------------
(* _lastfm_get *)

LastfmRequest(p) ==
    [url |-> <<LASTFM_BASE_URL>>, method |-> "GET",
     params |-> Merge([api_key |-> LASTFM_API_KEY, format |-> "json"], p)]

\* Variant of LastfmOutcome that trusts every 200 body.
LastfmOutcome_IgnoresErrorField(r) ==
    IF r.status # HTTP_OK
    THEN Raise([prefix |-> "Last.fm HTTP ", status |-> r.status, text |-> r.text])
    ELSE Return(r.json)

\* Lines 51-57: what _lastfm_get makes of the response.
LastfmOutcome(r) ==
    IF r.status # HTTP_OK
    THEN Raise([prefix |-> "Last.fm HTTP ", status |-> r.status, text |-> r.text])
    ELSE IF "error" \in DOMAIN r.json
         THEN Raise([prefix |-> "Last.fm error ",
                     error |-> Some(r.json.error),
                     message |-> IF "message" \in DOMAIN r.json
                                 THEN Some(r.json.message) ELSE None])
         ELSE Return(r.json)

LastfmKeyMissing == ~Truthy(LASTFM_API_KEY)

ConfigErrorLastfm == [prefix |-> "LASTFM_API_KEY environment variable is not set."]

\* Lines 42-50: the key check, then the request goes out.
LastfmSend(t) ==
    /\ pc[t] = "lastfm_get"
    /\ IF LastfmKeyMissing
       THEN /\ result' = [result EXCEPT ![t] = Some(Raise(ConfigErrorLastfm))]
            /\ pc' = [pc EXCEPT ![t] = "done"]
            /\ UNCHANGED requests
       ELSE /\ requests' = [requests EXCEPT ![t] = Append(@, LastfmRequest(params[t][1]))]
            /\ pc' = [pc EXCEPT ![t] = "lastfm_wait"]
            /\ UNCHANGED result
    /\ UNCHANGED << creds, _spotify_token_cache, now, acquired, issued,
                    tool, endpoint, params, token, response, search_results, hist >>

\* Variant of LastfmRecv that sends the request again after a non-200 response.
LastfmRecv_Retries(t) ==
    /\ pc[t] = "lastfm_wait"
    /\ \E r \in LastfmResponses :
          /\ hist' = [hist EXCEPT ![t].resp = Some(r)]
          /\ IF r.status # HTTP_OK /\ Len(requests[t]) < 2
             THEN /\ requests' = [requests EXCEPT ![t] =
                                     Append(@, LastfmRequest(params[t][1]))]
                  /\ UNCHANGED << pc, result >>
             ELSE /\ result' = [result EXCEPT ![t] = Some(LastfmOutcome(r))]
                  /\ pc' = [pc EXCEPT ![t] = "done"]
                  /\ UNCHANGED requests
    /\ UNCHANGED << creds, _spotify_token_cache, now, acquired, issued,
                    tool, endpoint, params, token, response, search_results >>

\* Lines 50-57: the response arrives and is turned into the call's outcome.
LastfmRecv(t) ==
    /\ pc[t] = "lastfm_wait"
    /\ \E r \in LastfmResponses :
          /\ result' = [result EXCEPT ![t] = Some(LastfmOutcome(r))]
          /\ hist' = [hist EXCEPT ![t].resp = Some(r)]
    /\ pc' = [pc EXCEPT ![t] = "done"]
    /\ UNCHANGED << creds, _spotify_token_cache, now, acquired, issued,
                    tool, endpoint, params, token, response, requests, search_results >>

-----------------------------------------------------------------------------
(* _get_spotify_token *)

\* Variant of SpotifyCredsMissing that forgets the client secret.
SpotifyCredsMissing_IdOnly == ~Truthy(SPOTIFY_CLIENT_ID)

SpotifyCredsMissing == ~Truthy(SPOTIFY_CLIENT_ID) \/ ~Truthy(SPOTIFY_CLIENT_SECRET)

ConfigErrorSpotify ==
    [prefix |-> "Spotify credentials are not configured. Set SPOTIFY_CLIENT_ID and SPOTIFY_CLIENT_SECRET."]

\* Variant of CacheValid with the comparison turned around.
CacheValid_Reversed(cache, clock) == cache # None /\ cache[1].expires_at < clock

\* Line 82: the cache holds a token whose expires_at is still ahead of the clock.
CacheValid(cache, clock) == cache # None /\ cache[1].expires_at > clock

TokenRequest ==
    [url |-> <<SPOTIFY_AUTH_URL>>, method |-> "POST",
     data |-> [grant_type |-> "client_credentials",
               client_id |-> SPOTIFY_CLIENT_ID,
               client_secret |-> SPOTIFY_CLIENT_SECRET]]

\* Variant of AuthFailed whose message has no response body.
AuthFailed_NoBody(r) == Raise([prefix |-> "Spotify auth failed"])

\* Line 94: the exception of a failed token request.
AuthFailed(r) == Raise([prefix |-> "Spotify auth failed: ", text |-> r.text])

\* Variant of ExpiresIn without the 3600 default.
ExpiresIn_NoDefault(token_data) == Get(token_data, "expires_in", 0)

\* Line 97: int(token_data.get("expires_in", 3600))
ExpiresIn(token_data) == Get(token_data, "expires_in", DEFAULT_EXPIRES_IN)

\* Variant of CacheEntry without the safety margin.
CacheEntry_NoMargin(token_data, clock) ==
    [token |-> token_data.access_token,
     expires_at |-> clock + ExpiresIn(token_data)]

\* Lines 99-102: the cache entry built from a token response at clock reading `clock`.
CacheEntry(token_data, clock) ==
    [token |-> token_data.access_token,
     expires_at |-> clock + (ExpiresIn(token_data) - SAFETY_MARGIN)]

\* Lines 76-92: the credential check, the cache check, and on a miss the token request.
TokenCheck(t) ==
    /\ pc[t] = "get_token"
    /\ IF SpotifyCredsMissing
       THEN /\ result' = [result EXCEPT ![t] = Some(Raise(ConfigErrorSpotify))]
            /\ pc' = [pc EXCEPT ![t] = "done"]
            /\ hist' = [hist EXCEPT ![t].path = "config"]
            /\ UNCHANGED requests
       ELSE IF CacheValid(_spotify_token_cache, now)
       THEN /\ pc' = [pc EXCEPT ![t] = "token_hit"]
            /\ hist' = [hist EXCEPT ![t].path = "hit"]
            /\ UNCHANGED << requests, result >>
       ELSE /\ requests' = [requests EXCEPT ![t] = Append(@, TokenRequest)]
            /\ pc' = [pc EXCEPT ![t] = "token_wait"]
            /\ hist' = [hist EXCEPT ![t].path = "miss"]
            /\ UNCHANGED result
    /\ UNCHANGED << creds, _spotify_token_cache, now, acquired, issued,
                    tool, endpoint, params, token, response, search_results >>

\* Lines 126-132: the resource request _spotify_get builds around the token.
SpotifyRequest(ep, p, tok) ==
    [url |-> <<SPOTIFY_API_URL>> \o ep, method |-> "GET",
     headers |-> [Authorization |-> <<"Bearer ", tok>>],
     params |-> p]

\* Lines 125-132: _get_spotify_token has returned tok; the resource request goes out.
SpotifySend(t, tok) ==
    /\ token' = [token EXCEPT ![t] = Some(tok)]
    /\ requests' = [requests EXCEPT ![t] =
                        Append(@, SpotifyRequest(endpoint[t], params[t], tok))]
    /\ pc' = [pc EXCEPT ![t] = "spotify_wait"]

\* Line 83: the cached token is read again and returned to _spotify_get.
TokenHit(t) ==
    /\ pc[t] = "token_hit"
    /\ SpotifySend(t, _spotify_token_cache[1].token)
    /\ UNCHANGED << creds, _spotify_token_cache, now, acquired, issued, tool, endpoint,
                    params, response, search_results, hist, result >>

\* The identity endpoint answers a token request; a 200 carries the next token.
IdentityEndpoint(t) ==
    /\ pc[t] = "token_wait"
    /\ response[t] = None
    /\ \E r \in TokenResponses(issued + 1) :
          /\ r.status = HTTP_OK => issued < MaxTokens
          /\ response' = [response EXCEPT ![t] = Some(r)]
          /\ issued' = IF r.status = HTTP_OK THEN issued + 1 ELSE issued
    /\ UNCHANGED << creds, _spotify_token_cache, now, acquired, pc, tool, endpoint,
                    params, token, requests, search_results, hist, result >>

\* Variant of TokenRecv that drops the cached token when the refresh fails.
TokenRecv_ClearsCacheOnFailure(t) ==
    /\ pc[t] = "token_wait"
    /\ response[t] # None
    /\ LET r == response[t][1] IN
         /\ IF r.status # HTTP_OK
            THEN /\ result' = [result EXCEPT ![t] = Some(AuthFailed(r))]
                 /\ pc' = [pc EXCEPT ![t] = "done"]
                 /\ _spotify_token_cache' = None
                 /\ UNCHANGED acquired
            ELSE /\ _spotify_token_cache' = Some(CacheEntry(r.json, now))
                 /\ acquired' = Some([at |-> now, token_data |-> r.json])
                 /\ pc' = [pc EXCEPT ![t] = "token_return"]
                 /\ UNCHANGED result
    /\ UNCHANGED << creds, now, issued, tool, endpoint, params, token, response,
                    requests, search_results, hist >>

\* Lines 92-102: the token response is read; a 200 replaces the cache.
TokenRecv(t) ==
    /\ pc[t] = "token_wait"
    /\ response[t] # None
    /\ LET r == response[t][1] IN
         /\ IF r.status # HTTP_OK
            THEN /\ result' = [result EXCEPT ![t] = Some(AuthFailed(r))]
                 /\ pc' = [pc EXCEPT ![t] = "done"]
                 /\ UNCHANGED << _spotify_token_cache, acquired >>
            ELSE /\ _spotify_token_cache' = Some(CacheEntry(r.json, now))
                 /\ acquired' = Some([at |-> now, token_data |-> r.json])
                 /\ pc' = [pc EXCEPT ![t] = "token_return"]
                 /\ UNCHANGED result
    /\ UNCHANGED << creds, now, issued, tool, endpoint, params, token, response,
                    requests, search_results, hist >>

\* Line 103: the cache is read again and its token returned to _spotify_get.
TokenReturn(t) ==
    /\ pc[t] = "token_return"
    /\ SpotifySend(t, _spotify_token_cache[1].token)
    /\ response' = [response EXCEPT ![t] = None]
    /\ UNCHANGED << creds, _spotify_token_cache, now, acquired, issued, tool, endpoint,
                    params, search_results, hist, result >>

-----------------------------------------------------------------------------
(* _spotify_get *)

\* Variant of SpotifyOutcome that raises on server errors only.
SpotifyOutcome_ServerErrorsOnly(r) ==
    IF r.status >= 500
    THEN Raise([prefix |-> "Spotify HTTP ", status |-> r.status, text |-> r.text])
    ELSE Return(r.json)

\* Lines 133-135: what _spotify_get makes of the response.
SpotifyOutcome(r) ==
    IF r.status # HTTP_OK
    THEN Raise([prefix |-> "Spotify HTTP ", status |-> r.status, text |-> r.text])
    ELSE Return(r.json)

-----------------------------------------------------------------------------
(* Tool functions *)

\* search_artist_by_name, lines 371-378
SearchParams(artist_name, limit) ==
    Some([q |-> artist_name, type |-> "artist", limit |-> limit])

\* get_artist_details, line 295
ArtistEndpoint(artist_id) == <<"/artists/", artist_id>>

\* get_artist_details_by_name, line 402: search_results.get("artists", {}).get("items", [])
ArtistsOf(results) == Get(Get(results, "artists", [items |-> <<>>]), "items", <<>>)

\* Variant of FirstArtistId that takes the last match.
LastArtistId(artists) == artists[Len(artists)].id

\* get_artist_details_by_name, line 407: artists[0]["id"]
FirstArtistId(artists) == artists[1].id

Tools ==
    { [name |-> "get_lastfm_user_info", arg |-> "alice"] } \cup
    { [name |-> "get_artist_details", arg |-> "id2"] } \cup
    { [name |-> "get_artist_details_by_name", arg |-> n] : n \in ArtistNames }

NoHistory == [path |-> "none", resp |-> None]

\* The agent's tool node starts a tool function (lines 159, 295, 400).
Call(t) ==
    /\ pc[t] = "idle"
    /\ \E f \in Tools :
          /\ tool' = [tool EXCEPT ![t] = Some(f)]
          /\ CASE f.name = "get_lastfm_user_info" ->
                    /\ params' = [params EXCEPT ![t] =
                                      Some([method |-> "user.getInfo", user |-> f.arg])]
                    /\ pc' = [pc EXCEPT ![t] = "lastfm_get"]
                    /\ UNCHANGED endpoint
               [] f.name = "get_artist_details" ->
                    /\ endpoint' = [endpoint EXCEPT ![t] = ArtistEndpoint(f.arg)]
                    /\ params' = [params EXCEPT ![t] = None]
                    /\ pc' = [pc EXCEPT ![t] = "get_token"]
               [] f.name = "get_artist_details_by_name" ->
                    /\ endpoint' = [endpoint EXCEPT ![t] = <<"/search">>]
                    /\ params' = [params EXCEPT ![t] = SearchParams(f.arg, 1)]
                    /\ pc' = [pc EXCEPT ![t] = "get_token"]
    /\ UNCHANGED << creds, _spotify_token_cache, now, acquired, issued, token, response,
                    requests, search_results, hist, result >>

\* Lines 128-135, then the caller's continuation (lines 295, 400-408).
SpotifyRecv(t) ==
    /\ pc[t] = "spotify_wait"
    /\ \E r \in SpotifyResponses(endpoint[t]) :
          LET out == SpotifyOutcome(r)
              searching == tool[t][1].name = "get_artist_details_by_name"
                             /\ search_results[t] = None
          IN  /\ hist' = [hist EXCEPT ![t].resp = Some(r)]
              /\ IF out.kind = "raise" \/ ~searching
                 THEN /\ result' = [result EXCEPT ![t] = Some(out)]
                      /\ pc' = [pc EXCEPT ![t] = "done"]
                      /\ UNCHANGED << search_results, endpoint, params >>
                 ELSE /\ search_results' = [search_results EXCEPT ![t] = Some(out.value)]
                      /\ IF ArtistsOf(out.value) = <<>>
                         THEN /\ result' = [result EXCEPT ![t] = Some(Return(None))]
                              /\ pc' = [pc EXCEPT ![t] = "done"]
                              /\ UNCHANGED << endpoint, params >>
                         ELSE /\ endpoint' = [endpoint EXCEPT ![t] =
                                                 ArtistEndpoint(FirstArtistId(ArtistsOf(out.value)))]
                              /\ params' = [params EXCEPT ![t] = None]
                              /\ pc' = [pc EXCEPT ![t] = "get_token"]
                              /\ UNCHANGED result
    /\ UNCHANGED << creds, _spotify_token_cache, now, acquired, issued, tool, token,
                    response, requests >>

\* The outcome is handed back to the agent and the invocation's frame is dropped.
Complete(t) ==
    /\ pc[t] = "done"
    /\ pc' = [pc EXCEPT ![t] = "idle"]
    /\ tool' = [tool EXCEPT ![t] = None]
    /\ endpoint' = [endpoint EXCEPT ![t] = <<>>]
    /\ params' = [params EXCEPT ![t] = None]
    /\ token' = [token EXCEPT ![t] = None]
    /\ requests' = [requests EXCEPT ![t] = <<>>]
    /\ search_results' = [search_results EXCEPT ![t] = None]
    /\ hist' = [hist EXCEPT ![t] = NoHistory]
    /\ result' = [result EXCEPT ![t] = None]
    /\ response' = [response EXCEPT ![t] = None]
    /\ UNCHANGED << creds, _spotify_token_cache, now, acquired, issued >>

\* Time passes.
Tick ==
    /\ \E i \in Instants : i > now /\ now' = i
    /\ UNCHANGED << creds, _spotify_token_cache, acquired, issued, pc, tool, endpoint,
                    params, token, response, requests, search_results, hist, result >>

-----------------------------------------------------------------------------

Init ==
    /\ LASTFM_API_KEY \in CredValues
    /\ SPOTIFY_CLIENT_ID \in CredValues
    /\ SPOTIFY_CLIENT_SECRET \in CredValues
    /\ _spotify_token_cache = None
    /\ now = 0
    /\ acquired = None
    /\ issued = 0
    /\ pc = [t \in Threads |-> "idle"]
    /\ tool = [t \in Threads |-> None]
    /\ endpoint = [t \in Threads |-> <<>>]
    /\ params = [t \in Threads |-> None]
    /\ token = [t \in Threads |-> None]
    /\ response = [t \in Threads |-> None]
    /\ requests = [t \in Threads |-> <<>>]
    /\ search_results = [t \in Threads |-> None]
    /\ hist = [t \in Threads |-> NoHistory]
    /\ result = [t \in Threads |-> None]

Next ==
    \/ Tick
    \/ \E t \in Threads :
          \/ Call(t)
          \/ LastfmSend(t)
          \/ LastfmRecv(t)
          \/ TokenCheck(t)
          \/ TokenHit(t)
          \/ IdentityEndpoint(t)
          \/ TokenRecv(t)
          \/ TokenReturn(t)
          \/ SpotifyRecv(t)
          \/ Complete(t)

Spec == Init /\ [][Next]_vars

-----------------------------------------------------------------------------
(* Vocabulary of the properties *)

IsTokenRequest(q) == q.url = <<SPOTIFY_AUTH_URL>>
IsResourceRequest(q) == q.url[1] = SPOTIFY_API_URL
TokenRequestsOf(t) == SelectSeq(requests[t], IsTokenRequest)
ResourceRequestsOf(t) == SelectSeq(requests[t], IsResourceRequest)

Absent(c) == c = None \/ c = <<"">>
SpotifyConfigured == ~Absent(SPOTIFY_CLIENT_ID) /\ ~Absent(SPOTIFY_CLIENT_SECRET)

\* The lifetime behind the cached token: the declared one, 3600 when none is declared.
LifetimeOf(token_data) ==
    IF "expires_in" \in DOMAIN token_data THEN token_data.expires_in ELSE 3600

\* The token of the most recent successful refresh.
LastRefreshedToken == acquired[1].token_data.access_token

IsLastfmTool(t) == tool[t] # None /\ tool[t][1].name = "get_lastfm_user_info"
IsSpotifyTool(t) == tool[t] # None /\ tool[t][1].name # "get_lastfm_user_info"
IsByName(t) == tool[t] # None /\ tool[t][1].name = "get_artist_details_by_name"

Raised(t) == result[t] # None /\ result[t][1].kind = "raise"
Returned(t) == result[t] # None /\ result[t][1].kind = "return"

-----------------------------------------------------------------------------
(* C1: with credentials configured, a _get_spotify_token() call that finds a
   cached entry with now < expires_at issues no network request, returns the
   token stored by the most recent successful refresh and leaves the cache
   entry unchanged. *)
C1_FreshCacheIsReused ==
    [][\A t \in Threads :
        /\ ( /\ pc[t] = "get_token" /\ pc'[t] # "get_token"
             /\ SpotifyConfigured
             /\ _spotify_token_cache # None
             /\ now < _spotify_token_cache[1].expires_at )
           => /\ pc'[t] = "token_hit"
              /\ requests'[t] = requests[t]
              /\ _spotify_token_cache' = _spotify_token_cache
        /\ ( pc[t] = "token_hit" /\ pc'[t] # "token_hit" )
           => /\ token'[t] = Some(LastRefreshedToken)
              /\ TokenRequestsOf(t)' = TokenRequestsOf(t)
              /\ _spotify_token_cache' = _spotify_token_cache
    ]_vars

C1_Witness ==
    \E t \in Threads :
        /\ hist[t].path = "hit"
        /\ pc[t] = "spotify_wait"
        /\ token[t] = Some(LastRefreshedToken)
        /\ TokenRequestsOf(t) = <<>>

(* C2: when the cache is empty or now >= expires_at, the next
   _get_spotify_token() call issues exactly one token request, and on a 200
   response replaces the cache and returns the new token. *)
C2_ExpiredCacheIsRefreshedOnce ==
    [][\A t \in Threads :
        /\ ( /\ pc[t] = "get_token" /\ pc'[t] # "get_token"
             /\ SpotifyConfigured
             /\ ( _spotify_token_cache = None
                  \/ now >= _spotify_token_cache[1].expires_at ) )
           => /\ pc'[t] = "token_wait"
              /\ Len(requests'[t]) = Len(requests[t]) + 1
              /\ IsTokenRequest(requests'[t][Len(requests'[t])])
        /\ pc[t] = "token_wait" => requests'[t] = requests[t]
        /\ ( pc[t] = "token_wait" /\ pc'[t] = "token_return" )
           => /\ response[t][1].status = 200
              /\ _spotify_token_cache'[1].token = response[t][1].json.access_token
        /\ ( pc[t] = "token_return" /\ pc'[t] # "token_return" )
           => /\ token'[t] = Some(response[t][1].json.access_token)
              /\ TokenRequestsOf(t)' = TokenRequestsOf(t)
    ]_vars

(* C3 as stated: the cached expires_at is acquisition time + declared lifetime
   - 60 s, and no token _get_spotify_token() hands out is within 60 seconds of
   its real expiry. *)
C3_NeverHandedOutNearExpiry ==
    [][\A t \in Threads :
        ( pc[t] \in {"token_hit", "token_return"} /\ pc'[t] = "spotify_wait" )
        => /\ _spotify_token_cache[1].expires_at
                = acquired[1].at + LifetimeOf(acquired[1].token_data) - 60
           /\ now + 60 <= acquired[1].at + LifetimeOf(acquired[1].token_data)
    ]_vars

(* C3 amended: whenever the cache is present, expires_at is the acquisition
   time plus the lifetime (declared, or 3600 when none is declared) minus 60 s,
   so an entry that passes the check of line 82 is more than 60 seconds before
   acquisition time + lifetime. *)
C3_ExpiresAtKeepsMargin ==
    _spotify_token_cache # None =>
        /\ acquired # None
        /\ _spotify_token_cache[1].token = LastRefreshedToken
        /\ _spotify_token_cache[1].expires_at
             = acquired[1].at + LifetimeOf(acquired[1].token_data) - 60
        /\ _spotify_token_cache[1].expires_at > now
             => now + 60 < acquired[1].at + LifetimeOf(acquired[1].token_data)

C3_Witness ==
    /\ _spotify_token_cache # None
    /\ _spotify_token_cache[1].expires_at > now
    /\ now > acquired[1].at
    /\ \E t \in Threads : pc[t] = "token_hit"

(* C4: concurrent _get_spotify_token() calls are serialized: two invocations
   never both have a refresh request outstanding, and a refresh that finishes
   later never replaces the cached token by an older one. *)
C4_RefreshIsSerialized ==
    [][ /\ \A t1, t2 \in Threads :
             t1 # t2 => ~(pc'[t1] = "token_wait" /\ pc'[t2] = "token_wait")
        /\ ( _spotify_token_cache # None /\ _spotify_token_cache' # _spotify_token_cache )
             => _spotify_token_cache'[1].token > _spotify_token_cache[1].token
    ]_vars

(* C5: a gateway call made while its credential is absent (LASTFM_API_KEY for
   Last.fm; SPOTIFY_CLIENT_ID or SPOTIFY_CLIENT_SECRET for Spotify) fails with
   the configuration error at that use and issues no network request. *)
C5_MissingCredentialFailsBeforeNetwork ==
    \A t \in Threads :
        /\ ( IsLastfmTool(t) /\ Absent(LASTFM_API_KEY) )
           => /\ requests[t] = <<>>
              /\ pc[t] \in {"lastfm_get", "done"}
              /\ pc[t] = "done" => result[t] = Some(Raise(ConfigErrorLastfm))
        /\ ( IsSpotifyTool(t) /\ (Absent(SPOTIFY_CLIENT_ID) \/ Absent(SPOTIFY_CLIENT_SECRET)) )
           => /\ requests[t] = <<>>
              /\ pc[t] \in {"get_token", "done"}
              /\ pc[t] = "done" => result[t] = Some(Raise(ConfigErrorSpotify))

C5_Witness ==
    \E t \in Threads :
        /\ IsSpotifyTool(t)
        /\ ~Absent(SPOTIFY_CLIENT_ID) /\ Absent(SPOTIFY_CLIENT_SECRET)
        /\ pc[t] = "done"
        /\ Raised(t)

(* C6: a Last.fm response with status 200 whose JSON body has an `error` field
   is never returned as a success: the call raises the provider-level error
   with the provider's code and message, which differs from the error raised
   for a non-200 status. *)
C6_LastfmErrorFieldRaises ==
    \A t \in Threads :
        ( /\ IsLastfmTool(t)
          /\ hist[t].resp # None
          /\ hist[t].resp[1].status = 200
          /\ "error" \in DOMAIN hist[t].resp[1].json )
        => LET r == hist[t].resp[1]
               e == result[t][1].exc
           IN  /\ pc[t] = "done"
               /\ Raised(t)
               /\ e.prefix = "Last.fm error "
               /\ e.error = Some(r.json.error)
               /\ e.message = IF "message" \in DOMAIN r.json
                              THEN Some(r.json.message) ELSE None
               /\ \A h \in LastfmResponses :
                     h.status # 200 => result[t][1] # LastfmOutcome(h)

C6_Witness ==
    \E t \in Threads :
        /\ IsLastfmTool(t)
        /\ hist[t].resp # None
        /\ hist[t].resp[1].status = 200
        /\ "error" \in DOMAIN hist[t].resp[1].json
        /\ "message" \notin DOMAIN hist[t].resp[1].json
        /\ Raised(t)

(* C7: every Last.fm or Spotify resource call whose response status is not 200
   raises the HTTP error carrying that status code and the raw body; no
   non-200 response is returned as a success. *)
C7_Non200Raises ==
    \A t \in Threads :
        ( hist[t].resp # None /\ hist[t].resp[1].status # 200 )
        => LET r == hist[t].resp[1] IN
           /\ pc[t] = "done"
           /\ Raised(t)
           /\ result[t][1].exc
                = [prefix |-> IF IsLastfmTool(t) THEN "Last.fm HTTP " ELSE "Spotify HTTP ",
                   status |-> r.status, text |-> r.text]

C7_Witness ==
    \E t \in Threads :
        /\ IsSpotifyTool(t)
        /\ hist[t].resp # None
        /\ hist[t].resp[1].status = 404
        /\ Raised(t)
        /\ result[t][1].exc.status = 404

(* C8: get_artist_details_by_name(name) issues one name search with limit=1;
   if the search yields no items it returns None and issues no details call;
   otherwise it issues exactly one details call keyed on the first item's id
   and returns that call's JSON unchanged. *)
ItemsOf(sr) ==
    IF "artists" \in DOMAIN sr /\ "items" \in DOMAIN sr.artists
    THEN sr.artists.items ELSE <<>>

C8_DetailsByName ==
    \A t \in Threads :
        IsByName(t) =>
        LET calls == ResourceRequestsOf(t)
            name == tool[t][1].arg
        IN  /\ Len(calls) <= 2
            /\ Len(calls) >= 1 =>
                  /\ calls[1].url = <<SPOTIFY_API_URL, "/search">>
                  /\ calls[1].params = Some([q |-> name, type |-> "artist", limit |-> 1])
            /\ Len(calls) = 2 =>
                  /\ search_results[t] # None
                  /\ ItemsOf(search_results[t][1]) # <<>>
                  /\ calls[2].url = <<SPOTIFY_API_URL, "/artists/",
                                      ItemsOf(search_results[t][1])[1].id>>
                  /\ calls[2].params = None
            /\ ( search_results[t] # None /\ ItemsOf(search_results[t][1]) = <<>> )
                  => /\ pc[t] = "done"
                     /\ result[t] = Some(Return(None))
                     /\ Len(calls) = 1
            /\ ( pc[t] = "done" /\ Returned(t) /\ result[t][1].value # None )
                  => /\ Len(calls) = 2
                     /\ hist[t].resp[1].status = 200
                     /\ result[t][1].value = hist[t].resp[1].json
            /\ ( pc[t] = "done" /\ Returned(t) ) => search_results[t] # None

C8_Witness ==
    \E t \in Threads :
        /\ IsByName(t)
        /\ pc[t] = "done"
        /\ Returned(t)
        /\ Len(ItemsOf(search_results[t][1])) = 2
        /\ result[t][1].value.id = "2ye2Wgw4gimLv2eAKyk1NB"

C8_WitnessNotFound ==
    \E t \in Threads :
        /\ IsByName(t)
        /\ pc[t] = "done"
        /\ result[t] = Some(Return(None))

(* C9 as stated: when the token response declares a lifetime of 0 or omits it,
   the stored expires_at is acquisition time + 3540 seconds. *)
C9_ZeroOrMissingLifetimeDefaults ==
    ( /\ _spotify_token_cache # None
      /\ ( "expires_in" \notin DOMAIN acquired[1].token_data
           \/ acquired[1].token_data.expires_in = 0 ) )
    => _spotify_token_cache[1].expires_at = acquired[1].at + 3540

(* C9 amended: when the token response omits the lifetime, the stored
   expires_at is acquisition time + 3540 seconds; a declared lifetime of 0 is
   used as declared, so the stored expires_at is acquisition time - 60. *)
C9_MissingLifetimeDefaults ==
    _spotify_token_cache # None =>
        /\ "expires_in" \notin DOMAIN acquired[1].token_data
             => _spotify_token_cache[1].expires_at = acquired[1].at + 3540
        /\ ( "expires_in" \in DOMAIN acquired[1].token_data
             /\ acquired[1].token_data.expires_in = 0 )
             => _spotify_token_cache[1].expires_at = acquired[1].at - 60

C9_Witness ==
    /\ _spotify_token_cache # None
    /\ "expires_in" \notin DOMAIN acquired[1].token_data
    /\ acquired[1].at = 60
    /\ _spotify_token_cache[1].expires_at = 3600

(* C10 as stated: when the token request is answered with a non-success
   status, _get_spotify_token() raises an error carrying both the provider's
   status code and the provider's response body. *)
C10_AuthErrorCarriesStatusAndBody ==
    \A t \in Threads :
        ( pc[t] = "done" /\ response[t] # None /\ response[t][1].status # 200 )
        => LET e == result[t][1].exc IN
           /\ Raised(t)
           /\ "status" \in DOMAIN e /\ e.status = response[t][1].status
           /\ "text" \in DOMAIN e /\ e.text = response[t][1].text

(* C10 amended: when the token request is answered with a non-success status,
   _get_spotify_token() raises an error whose message is "Spotify auth failed: "
   followed by the provider's response body; the status code is not part of it. *)
C10_AuthErrorCarriesBody ==
    \A t \in Threads :
        ( response[t] # None /\ response[t][1].status # 200 )
        => /\ pc[t] \in {"token_wait", "done"}
           /\ pc[t] = "done" =>
                 result[t] = Some(Raise([prefix |-> "Spotify auth failed: ",
                                         text |-> response[t][1].text]))

C10_Witness ==
    \E t \in Threads :
        /\ pc[t] = "done"
        /\ response[t] # None
        /\ response[t][1].status = 400
        /\ Raised(t)
        /\ result[t][1].exc.text = "invalid_client"

(* C11: no gateway call retries: one _lastfm_get issues at most one HTTP
   request, one _spotify_get issues at most one token request and at most one
   resource request, and the first failed request ends the invocation with an
   error, no further request being issued in it. *)
IsLastfmRequest(q) == q.url = <<LASTFM_BASE_URL>>

\* Position of the first resource request in a log, 0 when there is none.
FirstResource(log) ==
    IF \E i \in 1..Len(log) : IsResourceRequest(log[i])
    THEN CHOOSE i \in 1..Len(log) :
            /\ IsResourceRequest(log[i])
            /\ \A j \in 1..(i - 1) : ~IsResourceRequest(log[j])
    ELSE 0

\* The requests of the first _spotify_get of an invocation, and those after it.
FirstGatewayCall(log) ==
    IF FirstResource(log) = 0 THEN log ELSE SubSeq(log, 1, FirstResource(log))
LaterGatewayCall(log) ==
    IF FirstResource(log) = 0 THEN <<>> ELSE SubSeq(log, FirstResource(log) + 1, Len(log))

AtMostOneOfEach(part) ==
    /\ Len(SelectSeq(part, IsTokenRequest)) <= 1
    /\ Len(SelectSeq(part, IsResourceRequest)) <= 1
    /\ Len(part) <= 2

LastRequest(t) == requests[t][Len(requests[t])]

C11_NoRetries ==
    \A t \in Threads :
        /\ IsLastfmTool(t) => Len(requests[t]) <= 1
        /\ \A i \in 1..Len(requests[t]) :
              IsLastfmRequest(requests[t][i]) <=> IsLastfmTool(t)
        /\ IsSpotifyTool(t) =>
              /\ AtMostOneOfEach(FirstGatewayCall(requests[t]))
              /\ AtMostOneOfEach(LaterGatewayCall(requests[t]))
              /\ ~IsByName(t) => LaterGatewayCall(requests[t]) = <<>>
        \* a failed resource or Last.fm request ends the invocation
        /\ ( /\ hist[t].resp # None
             /\ ( hist[t].resp[1].status # 200
                  \/ (IsLastfmTool(t) /\ "error" \in DOMAIN hist[t].resp[1].json) ) )
           => /\ pc[t] = "done"
              /\ Raised(t)
              /\ ~IsTokenRequest(LastRequest(t))
        \* a failed token request ends the invocation
        /\ ( /\ response[t] # None
             /\ response[t][1].status # 200
             /\ pc[t] # "token_wait" )
           => /\ pc[t] = "done"
              /\ Raised(t)
              /\ IsTokenRequest(LastRequest(t))

C11_Witness ==
    \E t \in Threads :
        /\ IsByName(t)
        /\ pc[t] = "done"
        /\ Raised(t)
        /\ Len(TokenRequestsOf(t)) = 2
        /\ Len(ResourceRequestsOf(t)) = 2
        /\ hist[t].resp[1].status = 404

(* C12: a _get_spotify_token() call that fails (credentials missing, or token
   request answered with a non-200 status) leaves the token cache as it was;
   the cache is only ever written as a complete (token, expires_at) pair taken
   from one successful token response; and a _spotify_get whose token
   acquisition failed sends no resource request. *)
C12_FailedAcquisitionLeavesCache ==
    [][ /\ \A t \in Threads :
             \* the failing step: no write, no request, the error is raised
             /\ ( pc[t] \in {"get_token", "token_wait"} /\ pc'[t] = "done" )
                => /\ _spotify_token_cache' = _spotify_token_cache
                   /\ requests'[t] = requests[t]
                   /\ result'[t] # None /\ result'[t][1].kind = "raise"
             \* missing credentials and a non-200 token response do fail
             /\ ( pc[t] = "get_token" /\ pc'[t] # "get_token" /\ ~SpotifyConfigured )
                => pc'[t] = "done"
             /\ ( /\ pc[t] = "token_wait" /\ pc'[t] # "token_wait"
                  /\ response[t][1].status # 200 )
                => pc'[t] = "done"
             \* after the failure the invocation sends nothing
             /\ pc[t] = "done" => requests'[t] \in {requests[t], <<>>}
        /\ _spotify_token_cache' # _spotify_token_cache
             => \E t \in Threads :
                   /\ pc[t] = "token_wait" /\ pc'[t] = "token_return"
                   /\ response[t] # None
                   /\ response[t][1].status = 200
                   /\ _spotify_token_cache'
                        = Some([token |-> response[t][1].json.access_token,
                                expires_at |-> now + LifetimeOf(response[t][1].json) - 60])
    ]_vars

C12_Witness ==
    \E t \in Threads :
        /\ pc[t] = "done"
        /\ response[t] # None
        /\ response[t][1].status = 400
        /\ Raised(t)
        /\ _spotify_token_cache # None
        /\ _spotify_token_cache[1].expires_at <= now
        /\ ~IsResourceRequest(LastRequest(t))

====
